---- MODULE Spec2Model ----
(***************************************************************************)
(* A model of wormhole_mailbox_server/database.py: creation, opening and   *)
(* forward-only upgrade of the SQLite database files of the mailbox        *)
(* server.                                                                 *)
(*                                                                         *)
(* The filesystem is a directory (path -> inode) over a disk (inode ->     *)
(* file content).  A file content records what the SQL executed on it      *)
(* left behind: the creation script, the rows of the `version` table, the  *)
(* upgrader scripts, and the rows PRAGMA foreign_key_check reports.        *)
(* Each process runs one call at a time; pc is its position in the code.   *)
(***************************************************************************)
EXTENDS Naturals, Sequences, FiniteSets, TLC

\* ------------------------------------------------------------------ bounds

\* Largest schema version (target_version, or version found in a file).
MaxTarget == 3

\* Number of injected I/O failures and interruptions in one behaviour.
MaxFaults == 1

\* --------------------------------------------------------------- constants

CHANNELDB_TARGET_VERSION == 1
USAGEDB_TARGET_VERSION == 2

MEMORY == ":memory:"
DBFILE == "db"

Names == {"channel", "usage"}
Versions == 1..MaxTarget
Procs == {"p1", "p2"}

\* ------------------------------------------------------------ file content

\* A zero-length file: what mkstemp leaves, and a valid empty SQLite database.
EmptyFile == [fmt |-> "sqlite", schema |-> <<>>, version |-> <<>>,
              steps |-> <<>>, fk |-> <<>>]

\* A file that is not an SQLite database.
JunkFile == [fmt |-> "junk", schema |-> <<>>, version |-> <<>>,
             steps |-> <<>>, fk |-> <<>>]

\* db.executescript(get_schema(name, version)) run to its end.
SchemaScript(c, name, v) ==
    [c EXCEPT !.schema = Append(@, [name |-> name, v |-> v, whole |-> TRUE])]

\* db.executescript(get_schema(name, version)) failing part-way: the
\* statements before the failing one are kept (executescript autocommits).
SchemaScriptPartial(c, name, v) ==
    [c EXCEPT !.schema = Append(@, [name |-> name, v |-> v, whole |-> FALSE])]

\* INSERT INTO version (version) VALUES (v)
InsertVersion(c, v) == [c EXCEPT !.version = Append(@, v)]

\* The upgrader script upgrade-<name>-to-v<newv>.sql run to its end: its
\* schema changes, and the version record set to newv.
UpgraderScript(c, name, newv) ==
    [c EXCEPT !.steps = Append(@, [name |-> name, to |-> newv, whole |-> TRUE]),
              !.version = <<newv>>]

\* The upgrader script failing part-way: some of its statements applied,
\* the version record not yet rewritten.
UpgraderScriptPartial(c, name, newv) ==
    [c EXCEPT !.steps = Append(@, [name |-> name, to |-> newv, whole |-> FALSE])]

\* The `version` table exists once a creation script has run to its end.
HasVersionTable(c) ==
    /\ c.fmt = "sqlite"
    /\ c.schema # <<>>
    /\ c.schema[1].whole

\* A database as _initialize_db_schema(db, name, v) leaves it.
FreshDb(name, v) == InsertVersion(SchemaScript(EmptyFile, name, v), v)

\* ------------------------------------------------------------- connections

NoConn == [st |-> "none", path |-> "", ino |-> 0, mem |-> <<>>, txn |-> <<>>,
           row_factory |-> "none"]

NoCall == [fn |-> "", dbfile |-> "", name |-> "", target |-> 0]
NoResult == [kind |-> "", what |-> "", a |-> 0, b |-> 0, problems |-> <<>>]
NoSnap == [dir |-> <<>>, disk |-> <<>>]
NoDump == [orig |-> "", out |-> "", text |-> <<>>]

Ok == [NoResult EXCEPT !.kind = "ok"]
Exc(kind, what, a, b, problems) ==
    [kind |-> kind, what |-> what, a |-> a, b |-> b, problems |-> problems]

Ev(e, path, v) == [ev |-> e, path |-> path, v |-> v]

VARIABLES
    dir,        \* the directory: path -> inode, for the paths that exist
    disk,       \* inode -> committed file content (a sequence, by inode)
    upgraders,  \* the versions v for which upgrade-<name>-to-v<v>.sql is shipped
    config,     \* the (name, target_version) this installation passes to _get_db
    active,     \* the processes that use the directory
    pc,         \* per process: position in the running call, or "idle"/"done"
    call,       \* per process: the running call and its arguments
    stage,      \* per process: which _open_db_connection / schema init this is
    temp,       \* per process: temp_dbfile
    db,         \* per process: the connection object `db`
    version,    \* per process: the local `version` of _get_db
    result,     \* per process: what the call returned or raised
    faults,     \* number of injected failures so far
    log,        \* per process: the I/O events of the running call, in order
    snap,       \* per process: the filesystem as it was when the call began
    prev,       \* per process: the preceding call, when it was a successful _get_db
    dump        \* per process: `orig` of dump_db, and how the last dump_db ended

vars == <<dir, disk, upgraders, config, active, pc, call, stage, temp, db,
          version, result, faults, log, snap, prev, dump>>

env == <<upgraders, config, active>>

\* -------------------------------------------------------------- filesystem

\* os.path.exists(path)
Exists(path) == path \in DOMAIN dir

Content(path) == disk[dir[path]]

\* What a connection reads: its open transaction, else the committed state.
Stored(c) == IF c.ino = 0 THEN c.mem[1] ELSE disk[c.ino]
View(c) == IF c.txn # <<>> THEN c.txn[1] ELSE Stored(c)

\* ---------------------------------------------------------- pure helpers

\* get_upgrader(name, new_version) finds its file (it raises ValueError
\* otherwise).  Only config.name is ever looked up.
HasUpgrader(name, new_version) == name = config.name /\ new_version \in upgraders

\* backup_fn = "%s-backup-v%d" % (dbfile, version)
BackupFn(dbfile, v) == dbfile \o "-backup-v" \o ToString(v)

\* tempfile.mkstemp(prefix=basename(dbfile) + ".", dir=dirname(dbfile)): a
\* name in the same directory that does not exist yet.
TemporaryDbfile(dbfile) ==
    LET n == CHOOSE i \in 1..(Cardinality(DOMAIN dir) + 1) :
                 (dbfile \o ".tmp" \o ToString(i)) \notin DOMAIN dir
    IN dbfile \o ".tmp" \o ToString(n)

IsTemp(path) == \E i \in 1..(Cardinality(DOMAIN dir) + 1) : path = DBFILE \o ".tmp" \o ToString(i)

\* Faulty variant: the existence test is left out.
PathCaseBlind(dbfile) == IF dbfile = MEMORY THEN "memory" ELSE "temp"

\* Faulty variant: the test for the in-memory sentinel is left out.
PathCaseNoMemory(dbfile) == IF Exists(dbfile) THEN "existing" ELSE "temp"

\* The three cases of _get_db and of create_*_db.
PathCase(dbfile) ==
    IF dbfile = MEMORY THEN "memory"
    ELSE IF Exists(dbfile) THEN "existing"
    ELSE "temp"

\* Faulty variant: the test for the in-memory sentinel is inverted.
NeedsBackupInverted(v, target, dbfile) == v < target /\ dbfile = MEMORY

\* Faulty variant: a file that is at the target is backed up too.
NeedsBackupInclusive(v, target, dbfile) == v <= target /\ dbfile # MEMORY

\* Faulty variant: the backup is written only when the first step is shipped.
NeedsBackupIfUpgradable(v, target, dbfile) ==
    v < target /\ dbfile # MEMORY /\ HasUpgrader(config.name, v + 1)

\* if version < target_version and dbfile != ":memory:"
NeedsBackup(v, target, dbfile) == v < target /\ dbfile # MEMORY

\* Faulty variant: the loop runs for any version that is not the target.
NeedsUpgradeAnyMismatch(v, target) == v # target

\* while version < target_version
NeedsUpgrade(v, target) == v < target

\* Faulty variant: the loop counts two versions for one step.
NextVersionSkip(v) == v + 2

\* Faulty variant: the loop does not count the step it has run.
NextVersionStuck(v) == v

\* version = version+1
NextVersion(v) == v + 1

\* Faulty variant: the final version check is left out.
VersionMismatchIgnored(v, target) == FALSE

\* if version != target_version: raise DBError
VersionMismatch(v, target) == v # target

\* The version _initialize_db_schema stamps a new database with.
StampVersion(target) == target

\* Faulty variant: the new database is created at its final path straight away.
OpenPathInPlace(p) == call[p].dbfile

\* The path _open_db_connection is given at each of its call sites.
OpenPath(p) == IF stage[p] = "temp" THEN temp[p] ELSE call[p].dbfile

\* Faulty variant: every call that opened an existing file goes on to read
\* the version and upgrade.
AfterOpenAlwaysUpgrades(fn, st) ==
    IF st \in {"memory", "temp"} THEN "schema" ELSE "select"

\* Where a call goes on once _open_db_connection has returned.
AfterOpen(fn, st) ==
    IF st \in {"memory", "temp"} THEN "schema"
    ELSE IF fn = "_get_db" THEN "select"
    ELSE "done"

\* Where a call goes on once _initialize_db_schema has returned.
AfterInit(fn, st) ==
    IF st = "temp" THEN "close"
    ELSE IF fn = "_get_db" THEN "select"
    ELSE "done"

\* Faulty variant: the result of the check is not looked at.
ForeignKeyCheckSkipped(c) == <<>>

\* problems = db.execute("PRAGMA foreign_key_check").fetchall()
ForeignKeyCheck(c) == c.fk

\* Faulty variant: the two versions of the message are swapped.
UpgradeErrorSwapped(v) == Exc("DBError", "Unable to upgrade", v, v + 1, <<>>)

\* DBError("Unable to upgrade %s to version %s, left at %s"
\*         % (dbfile, version+1, version))
UpgradeError(v) == Exc("DBError", "Unable to upgrade", v + 1, v, <<>>)

\* The base class of each exception class the module defines or lets through.
BaseClass(kind) ==
    CASE kind = "DBError" -> "Exception"
      [] kind = "DBDoesntExist" -> "Exception"
      [] kind = "DBAlreadyExists" -> "Exception"
      [] OTHER -> "Exception"

\* isinstance(exception of class kind, cls)
IsInstance(kind, cls) == kind = cls \/ BaseClass(kind) = cls

\* ------------------------------------------------------------ state updates

Goto(p, l) ==
    /\ pc' = [pc EXCEPT ![p] = l]
    /\ result' = IF l = "done" THEN [result EXCEPT ![p] = Ok] ELSE result

\* An exception leaves the call; the connection object is dropped, and its
\* open transaction with it.
Raise(p, e) ==
    /\ pc' = [pc EXCEPT ![p] = "done"]
    /\ result' = [result EXCEPT ![p] = e]
    /\ db' = [db EXCEPT ![p] = NoConn]

Logged(p, e) == log' = [log EXCEPT ![p] = Append(@, e)]

\* A write that reaches the database itself (autocommit, or COMMIT).
WriteThrough(p, c) ==
    IF db[p].ino = 0
    THEN /\ db' = [db EXCEPT ![p].mem = <<c>>, ![p].txn = <<>>]
         /\ disk' = disk
    ELSE /\ db' = [db EXCEPT ![p].txn = <<>>]
         /\ disk' = [disk EXCEPT ![db[p].ino] = c]

\* ------------------------------------------------------------------- Init

InitialFiles(name) ==
    {JunkFile, EmptyFile}
    \cup {[FreshDb(name, v) EXCEPT !.fk = f] : v \in Versions, f \in {<<>>, <<"fk1">>}}

InitFs ==
    \/ dir = <<>> /\ disk = <<>>
    \/ \E c \in InitialFiles(config.name) : dir = (DBFILE :> 1) /\ disk = <<c>>

InitEnv ==
    /\ config \in [name : Names, target : Versions]
    /\ upgraders \in SUBSET (Versions \ {1})

InitProcs ==
    /\ pc = [p \in Procs |-> "idle"]
    /\ call = [p \in Procs |-> NoCall]
    /\ stage = [p \in Procs |-> ""]
    /\ temp = [p \in Procs |-> ""]
    /\ db = [p \in Procs |-> NoConn]
    /\ version = [p \in Procs |-> 0]
    /\ result = [p \in Procs |-> NoResult]
    /\ faults = 0
    /\ log = [p \in Procs |-> <<>>]
    /\ snap = [p \in Procs |-> NoSnap]
    /\ prev = [p \in Procs |-> <<>>]
    /\ dump = [p \in Procs |-> NoDump]

Init ==
    /\ InitEnv
    /\ InitFs
    /\ active = {"p1"}
    /\ InitProcs

\* ---------------------------------------------------------------- actions

\* A caller enters one of the module's functions.
Call(p) ==
    /\ p \in active
    /\ pc[p] = "idle"
    /\ \E dbfile \in {DBFILE, MEMORY} :
       \E c \in { [fn |-> "_get_db", dbfile |-> dbfile,
                   name |-> config.name, target |-> config.target],
                  [fn |-> "create_channel_db", dbfile |-> dbfile,
                   name |-> "channel", target |-> CHANNELDB_TARGET_VERSION],
                  [fn |-> "create_usage_db", dbfile |-> dbfile,
                   name |-> "usage", target |-> USAGEDB_TARGET_VERSION],
                  [fn |-> "open_existing_db", dbfile |-> dbfile,
                   name |-> "", target |-> 0] } :
          call' = [call EXCEPT ![p] = c]
    /\ pc' = [pc EXCEPT ![p] = "branch"]
    /\ snap' = [snap EXCEPT ![p] = [dir |-> dir, disk |-> disk]]
    /\ UNCHANGED <<dir, disk, env, dump, stage, temp, db, version, result, faults,
                   log, prev>>

\* _get_db, lines 94-100: which of the three cases this is.
GetDbBranch(p) ==
    /\ pc[p] = "branch"
    /\ call[p].fn = "_get_db"
    /\ LET case == PathCase(call[p].dbfile) IN
       /\ stage' = [stage EXCEPT ![p] = case]
       /\ Goto(p, IF case = "temp" THEN "mkstemp" ELSE "open")
    /\ UNCHANGED <<dir, disk, env, dump, call, temp, db, version, faults, log,
                   snap, prev>>

\* Faulty variant: create_*_db without its os.path.exists test.
CreateDbBranchClobber(p) ==
    /\ pc[p] = "branch"
    /\ call[p].fn \in {"create_channel_db", "create_usage_db"}
    /\ LET case == PathCaseBlind(call[p].dbfile) IN
       /\ stage' = [stage EXCEPT ![p] = case]
       /\ Goto(p, IF case = "temp" THEN "mkstemp" ELSE "open")
    /\ UNCHANGED <<dir, disk, env, dump, call, temp, db, version, faults, log,
                   snap, prev>>

\* create_channel_db / create_usage_db, lines 152-159 and 163-170.
CreateDbBranch(p) ==
    /\ pc[p] = "branch"
    /\ call[p].fn \in {"create_channel_db", "create_usage_db"}
    /\ LET case == PathCase(call[p].dbfile) IN
       IF case = "existing"
       THEN /\ Raise(p, Exc("DBAlreadyExists", "", 0, 0, <<>>))
            /\ UNCHANGED stage
       ELSE /\ stage' = [stage EXCEPT ![p] = case]
            /\ Goto(p, IF case = "temp" THEN "mkstemp" ELSE "open")
            /\ UNCHANGED db
    /\ UNCHANGED <<dir, disk, env, dump, call, temp, version, faults, log, snap, prev>>

\* Faulty variant: open_existing_db without its os.path.exists test.
OpenExistingDbUnchecked(p) ==
    /\ pc[p] = "branch"
    /\ call[p].fn = "open_existing_db"
    /\ IF call[p].dbfile = MEMORY
       THEN /\ Raise(p, Exc("AssertionError", "", 0, 0, <<>>))
            /\ UNCHANGED stage
       ELSE /\ stage' = [stage EXCEPT ![p] = "existing"]
            /\ Goto(p, "open")
            /\ UNCHANGED db
    /\ UNCHANGED <<dir, disk, env, dump, call, temp, version, faults, log, snap, prev>>

\* open_existing_db, lines 139-142.
OpenExistingDb(p) ==
    /\ pc[p] = "branch"
    /\ call[p].fn = "open_existing_db"
    /\ IF call[p].dbfile = MEMORY
       THEN /\ Raise(p, Exc("AssertionError", "", 0, 0, <<>>))
            /\ UNCHANGED stage
       ELSE IF ~Exists(call[p].dbfile)
       THEN /\ Raise(p, Exc("DBDoesntExist", "", 0, 0, <<>>))
            /\ UNCHANGED stage
       ELSE /\ stage' = [stage EXCEPT ![p] = "existing"]
            /\ Goto(p, "open")
            /\ UNCHANGED db
    /\ UNCHANGED <<dir, disk, env, dump, call, temp, version, faults, log, snap, prev>>

\* _get_temporary_dbfile, lines 67-75 (called at line 83): mkstemp creates
\* an empty file under a new name.
GetTemporaryDbfile(p) ==
    /\ pc[p] = "mkstemp"
    /\ LET name == TemporaryDbfile(call[p].dbfile) IN
       /\ temp' = [temp EXCEPT ![p] = name]
       /\ dir' = (name :> (Len(disk) + 1)) @@ dir
       /\ disk' = Append(disk, EmptyFile)
       /\ Logged(p, Ev("mkstemp", name, 0))
    /\ Goto(p, "open")
    /\ UNCHANGED <<env, dump, call, stage, db, version, faults, snap, prev>>

\* _open_db_connection, lines 58-59: sqlite3.connect opens the file at the
\* path, creating it when it is missing; the connection stays on that file
\* (inode) whatever the path is made to name later.
OpenDbConnection(p) ==
    /\ pc[p] = "open"
    /\ LET path == OpenPath(p)
           ino == IF path = MEMORY THEN 0
                  ELSE IF Exists(path) THEN dir[path]
                  ELSE Len(disk) + 1
           conn == [st |-> "open", path |-> path, ino |-> ino,
                    mem |-> IF path = MEMORY THEN <<EmptyFile>> ELSE <<>>,
                    txn |-> <<>>, row_factory |-> "none"]
       IN
       /\ IF path # MEMORY /\ ~Exists(path)
          THEN /\ dir' = (path :> ino) @@ dir
               /\ disk' = Append(disk, EmptyFile)
          ELSE UNCHANGED <<dir, disk>>
       /\ Logged(p, Ev("connect", path, 0))
       /\ db' = [db EXCEPT ![p] = conn]
       /\ Goto(p, "init_conn")
    /\ UNCHANGED <<env, dump, call, stage, temp, version, faults, snap, prev>>

\* _initialize_db_connection, lines 45-53, and the rest of
\* _open_db_connection, lines 60-65: the row factory, PRAGMA foreign_keys,
\* PRAGMA foreign_key_check (the first read of the file: a file that is no
\* database fails here and the except clause makes it a DBError), and the
\* return of the connection.
InitializeDbConnection(p) ==
    /\ pc[p] = "init_conn"
    /\ LET c0 == View(db[p]) IN
       IF c0.fmt = "junk"
       THEN Raise(p, Exc("DBError", "Unable to create/open db file", 0, 0, <<>>))
       ELSE IF ForeignKeyCheck(c0) # <<>>
       THEN Raise(p, Exc("DBError", "failed foreign key check", 0, 0,
                         ForeignKeyCheck(c0)))
       ELSE /\ db' = [db EXCEPT ![p].row_factory = "dict_factory"]
            /\ Goto(p, AfterOpen(call[p].fn, stage[p]))
    /\ UNCHANGED <<dir, disk, env, dump, call, stage, temp, version, faults, log,
                   snap, prev>>

\* _initialize_db_schema, lines 38-40: get_schema and executescript, whose
\* statements are committed as they run.
InitializeDbSchema(p) ==
    /\ pc[p] = "schema"
    /\ WriteThrough(p, SchemaScript(View(db[p]), call[p].name, call[p].target))
    /\ Logged(p, Ev("schema", call[p].name, call[p].target))
    /\ Goto(p, "insert")
    /\ UNCHANGED <<dir, env, dump, call, stage, temp, version, faults, snap, prev>>

\* _initialize_db_schema, lines 41-42: the INSERT opens a transaction.
InsertVersionRecord(p) ==
    /\ pc[p] = "insert"
    /\ db' = [db EXCEPT ![p].txn =
                 <<InsertVersion(View(db[p]), StampVersion(call[p].target))>>]
    /\ Logged(p, Ev("insert", "", StampVersion(call[p].target)))
    /\ Goto(p, "commit")
    /\ UNCHANGED <<dir, disk, env, dump, call, stage, temp, version, faults, snap, prev>>

\* _initialize_db_schema, line 43: db.commit().
CommitSchema(p) ==
    /\ pc[p] = "commit"
    /\ WriteThrough(p, View(db[p]))
    /\ Logged(p, Ev("commit", "", 0))
    /\ Goto(p, AfterInit(call[p].fn, stage[p]))
    /\ UNCHANGED <<dir, env, dump, call, stage, temp, version, faults, snap, prev>>

\* _atomic_create_and_initialize_db, line 86: db.close().
CloseDb(p) ==
    /\ pc[p] = "close"
    /\ db' = [db EXCEPT ![p] = NoConn]
    /\ Logged(p, Ev("close", "", 0))
    /\ Goto(p, "rename")
    /\ UNCHANGED <<dir, disk, env, dump, call, stage, temp, version, faults, snap, prev>>

\* _atomic_create_and_initialize_db, line 87: os.rename(temp_dbfile, dbfile)
\* gives the temporary file's inode the final name, replacing what is there.
RenameTemp(p) ==
    /\ pc[p] = "rename"
    /\ dir' = [q \in (DOMAIN dir \ {temp[p]}) \cup {call[p].dbfile} |->
                  IF q = call[p].dbfile THEN dir[temp[p]] ELSE dir[q]]
    /\ stage' = [stage EXCEPT ![p] = "final"]
    /\ Logged(p, Ev("rename", call[p].dbfile, 0))
    /\ Goto(p, "open")
    /\ UNCHANGED <<disk, env, dump, call, temp, db, version, faults, snap, prev>>

\* _get_db, line 102: SELECT version FROM version, first row.
SelectVersion(p) ==
    /\ pc[p] = "select"
    /\ LET c == View(db[p]) IN
       IF ~HasVersionTable(c)
       THEN /\ Raise(p, Exc("sqlite3.OperationalError", "no such table: version",
                            0, 0, <<>>))
            /\ UNCHANGED <<version, log>>
       ELSE IF c.version = <<>>
       THEN /\ Raise(p, Exc("TypeError", "fetchone() returned None", 0, 0, <<>>))
            /\ UNCHANGED <<version, log>>
       ELSE /\ version' = [version EXCEPT ![p] = c.version[1]]
            /\ Logged(p, Ev("select", "", c.version[1]))
            /\ Goto(p, "backup")
            /\ UNCHANGED db
    /\ UNCHANGED <<dir, disk, env, dump, call, stage, temp, faults, snap, prev>>

\* _get_db, lines 104-107: shutil.copy(dbfile, backup_fn) when the file is
\* behind the target.  The copy reads the bytes at dbfile and writes them to
\* backup_fn, creating it or overwriting it.
BackupBeforeUpgrade(p) ==
    /\ pc[p] = "backup"
    /\ IF NeedsBackup(version[p], call[p].target, call[p].dbfile)
       THEN LET backup_fn == BackupFn(call[p].dbfile, version[p]) IN
            IF ~Exists(call[p].dbfile)
            THEN /\ Raise(p, Exc("OSError", "No such file or directory", 0, 0, <<>>))
                 /\ UNCHANGED <<dir, disk, log>>
            ELSE /\ IF Exists(backup_fn)
                    THEN /\ disk' = [disk EXCEPT ![dir[backup_fn]] =
                                         Content(call[p].dbfile)]
                         /\ dir' = dir
                    ELSE /\ disk' = Append(disk, Content(call[p].dbfile))
                         /\ dir' = (backup_fn :> (Len(disk) + 1)) @@ dir
                 /\ Logged(p, Ev("copy", backup_fn, version[p]))
                 /\ Goto(p, "loop")
                 /\ UNCHANGED db
       ELSE /\ Goto(p, "loop")
            /\ UNCHANGED <<dir, disk, db, log>>
    /\ UNCHANGED <<env, dump, call, stage, temp, version, faults, snap, prev>>

\* _get_db, lines 109-116: the loop test and get_upgrader(name, version+1).
FetchUpgrader(p) ==
    /\ pc[p] = "loop"
    /\ IF NeedsUpgrade(version[p], call[p].target)
       THEN IF HasUpgrader(call[p].name, version[p] + 1)
            THEN /\ Logged(p, Ev("fetch", call[p].name, version[p] + 1))
                 /\ Goto(p, "upgrade")
                 /\ UNCHANGED db
            ELSE /\ Raise(p, UpgradeError(version[p]))
                 /\ UNCHANGED log
       ELSE /\ Goto(p, "final")
            /\ UNCHANGED <<db, log>>
    /\ UNCHANGED <<dir, disk, env, dump, call, stage, temp, version, faults, snap, prev>>

\* _get_db, lines 117-118: db.executescript(upgrader).
ExecuteUpgrader(p) ==
    /\ pc[p] = "upgrade"
    /\ WriteThrough(p, UpgraderScript(View(db[p]), call[p].name, version[p] + 1))
    /\ Logged(p, Ev("upgrade", call[p].name, version[p] + 1))
    /\ Goto(p, "commit_upgrade")
    /\ UNCHANGED <<dir, env, dump, call, stage, temp, version, faults, snap, prev>>

\* _get_db, lines 119-120: db.commit() and version = version+1.
CommitUpgrade(p) ==
    /\ pc[p] = "commit_upgrade"
    /\ WriteThrough(p, View(db[p]))
    /\ version' = [version EXCEPT ![p] = NextVersion(version[p])]
    /\ Logged(p, Ev("commit", "", 0))
    /\ Goto(p, "loop")
    /\ UNCHANGED <<dir, env, dump, call, stage, temp, faults, snap, prev>>

\* _get_db, lines 122-125: the final version check and `return db`.
FinalCheck(p) ==
    /\ pc[p] = "final"
    /\ IF VersionMismatch(version[p], call[p].target)
       THEN Raise(p, Exc("DBError", "Unable to handle db version", version[p], 0, <<>>))
       ELSE Goto(p, "done") /\ UNCHANGED db
    /\ UNCHANGED <<dir, disk, env, dump, call, stage, temp, version, faults, log,
                   snap, prev>>

\* What the caller of a successful _get_db on a file sees through the
\* returned connection.
Outcome(p) ==
    IF call[p].fn = "_get_db" /\ call[p].dbfile # MEMORY /\ result[p].kind = "ok"
    THEN <<[name |-> call[p].name, target |-> call[p].target,
            dbfile |-> call[p].dbfile, data |-> View(db[p]),
            created |-> \E i \in DOMAIN log[p] : log[p][i].ev = "rename",
            upgraded |-> \E i \in DOMAIN log[p] : log[p][i].ev = "upgrade"]>>
    ELSE <<>>

\* The call is over: the caller has its connection or its exception, and
\* may call again.
Return(p) ==
    /\ pc[p] = "done"
    /\ pc' = [pc EXCEPT ![p] = "idle"]
    /\ prev' = [prev EXCEPT ![p] = Outcome(p)]
    /\ call' = [call EXCEPT ![p] = NoCall]
    /\ stage' = [stage EXCEPT ![p] = ""]
    /\ temp' = [temp EXCEPT ![p] = ""]
    /\ db' = [db EXCEPT ![p] = NoConn]
    /\ version' = [version EXCEPT ![p] = 0]
    /\ result' = [result EXCEPT ![p] = NoResult]
    /\ log' = [log EXCEPT ![p] = <<>>]
    /\ snap' = [snap EXCEPT ![p] = NoSnap]
    /\ dump' = [dump EXCEPT ![p] = NoDump]
    /\ UNCHANGED <<dir, disk, env, faults>>

\* ----------------------------------------------------------------- faults

\* sqlite3.connect or a PRAGMA of _initialize_db_connection fails: the
\* except clause of _open_db_connection, lines 61-64, turns it into DBError.
FailOpen(p) ==
    /\ pc[p] \in {"open", "init_conn"}
    /\ faults < MaxFaults
    /\ faults' = faults + 1
    /\ Raise(p, Exc("DBError", "Unable to create/open db file", 0, 0, <<>>))
    /\ UNCHANGED <<dir, disk, env, dump, call, stage, temp, version, log, snap, prev>>

\* An operating-system call outside any try block fails: mkstemp (line 70),
\* the read of the schema resource (line 15), os.rename (line 87).  The
\* OSError leaves the call as it is.
FailOs(p) ==
    /\ pc[p] \in {"mkstemp", "schema", "rename"}
    /\ faults < MaxFaults
    /\ faults' = faults + 1
    /\ Raise(p, Exc("OSError", pc[p], 0, 0, <<>>))
    /\ UNCHANGED <<dir, disk, env, dump, call, stage, temp, version, log, snap, prev>>

\* shutil.copy (line 107) fails: the OSError leaves the call, and the backup
\* file may have been created and partly written.
FailCopy(p) ==
    /\ pc[p] = "backup"
    /\ NeedsBackup(version[p], call[p].target, call[p].dbfile)
    /\ faults < MaxFaults
    /\ faults' = faults + 1
    /\ LET backup_fn == BackupFn(call[p].dbfile, version[p]) IN
       \/ UNCHANGED <<dir, disk>>
       \/ /\ Exists(backup_fn)
          /\ disk' = [disk EXCEPT ![dir[backup_fn]] = JunkFile]
          /\ dir' = dir
       \/ /\ ~Exists(backup_fn)
          /\ disk' = Append(disk, JunkFile)
          /\ dir' = (backup_fn :> (Len(disk) + 1)) @@ dir
    /\ Raise(p, Exc("OSError", pc[p], 0, 0, <<>>))
    /\ UNCHANGED <<env, dump, call, stage, temp, version, log, snap, prev>>

\* A statement given to SQLite fails outside any try block: executescript
\* (lines 40, 118), the INSERT (line 41), a commit (lines 43, 119), the
\* SELECT (line 102).  The sqlite3.Error leaves the call as it is; a script
\* keeps the statements it had already run.
FailSql(p) ==
    /\ pc[p] \in {"schema", "insert", "commit", "select", "upgrade", "commit_upgrade"}
    /\ faults < MaxFaults
    /\ faults' = faults + 1
    /\ \/ UNCHANGED disk
       \/ /\ pc[p] = "schema"
          /\ db[p].ino # 0
          /\ disk' = [disk EXCEPT ![db[p].ino] =
                          SchemaScriptPartial(@, call[p].name, call[p].target)]
       \/ /\ pc[p] = "upgrade"
          /\ db[p].ino # 0
          /\ disk' = [disk EXCEPT ![db[p].ino] =
                          UpgraderScriptPartial(@, call[p].name, version[p] + 1)]
    /\ Raise(p, Exc("sqlite3.Error", pc[p], 0, 0, <<>>))
    /\ UNCHANGED <<dir, env, dump, call, stage, temp, version, log, snap, prev>>

\* The process is killed in the middle of a call: no exception, no return;
\* an open transaction is lost with the connection.  A kill that falls
\* inside executescript (lines 40, 118) finds the statements the script has
\* already run committed, as a failure of the script does.
Crash(p) ==
    /\ pc[p] \notin {"idle", "done"}
    /\ faults < MaxFaults
    /\ faults' = faults + 1
    /\ \/ UNCHANGED disk
       \/ /\ pc[p] = "schema"
          /\ db[p].ino # 0
          /\ disk' = [disk EXCEPT ![db[p].ino] =
                          SchemaScriptPartial(@, call[p].name, call[p].target)]
       \/ /\ pc[p] = "upgrade"
          /\ db[p].ino # 0
          /\ disk' = [disk EXCEPT ![db[p].ino] =
                          UpgraderScriptPartial(@, call[p].name, version[p] + 1)]
    /\ Raise(p, Exc("killed", pc[p], 0, 0, <<>>))
    /\ UNCHANGED <<dir, env, dump, call, stage, temp, version, log, snap, prev>>

\* ---------------------------------------------------------------- dump_db

\* Faulty variant: the finally clause is left out.
RowFactoryAfterDumpLeft(orig, current) == current

\* dump_db, lines 179-180: finally: db.row_factory = orig
RowFactoryAfterDump(orig, current) == orig

\* dump_db, lines 173-177, on a connection the module returned: orig is
\* saved and sqlite3.Row installed.
DumpDbEnter(p) ==
    /\ pc[p] = "done"
    /\ result[p].kind = "ok"
    /\ db[p].st = "open"
    /\ dump' = [dump EXCEPT ![p] = [orig |-> db[p].row_factory, out |-> "",
                                    text |-> <<>>]]
    /\ db' = [db EXCEPT ![p].row_factory = "sqlite3.Row"]
    /\ pc' = [pc EXCEPT ![p] = "iterdump"]
    /\ UNCHANGED <<dir, disk, env, call, stage, temp, version, result, faults,
                   log, snap, prev>>

\* dump_db, lines 178-180: "".join(db.iterdump()) is returned, the finally
\* clause having put the row factory back.
DumpDbLeave(p) ==
    /\ pc[p] = "iterdump"
    /\ dump' = [dump EXCEPT ![p].out = "returned", ![p].text = <<View(db[p])>>]
    /\ db' = [db EXCEPT ![p].row_factory =
                 RowFactoryAfterDump(dump[p].orig, db[p].row_factory)]
    /\ pc' = [pc EXCEPT ![p] = "done"]
    /\ UNCHANGED <<dir, disk, env, call, stage, temp, version, result, faults,
                   log, snap, prev>>

\* dump_db, lines 178-180: db.iterdump() raises; the exception leaves
\* dump_db through the finally clause.
FailIterdump(p) ==
    /\ pc[p] = "iterdump"
    /\ faults < MaxFaults
    /\ faults' = faults + 1
    /\ dump' = [dump EXCEPT ![p].out = "raised"]
    /\ db' = [db EXCEPT ![p].row_factory =
                 RowFactoryAfterDump(dump[p].orig, db[p].row_factory)]
    /\ pc' = [pc EXCEPT ![p] = "done"]
    /\ UNCHANGED <<dir, disk, env, call, stage, temp, version, result, log,
                   snap, prev>>

\* ---------------------------------------------------------- specification

Step(p) ==
    \/ Call(p)
    \/ GetDbBranch(p)
    \/ CreateDbBranch(p)
    \/ OpenExistingDb(p)
    \/ GetTemporaryDbfile(p)
    \/ OpenDbConnection(p)
    \/ InitializeDbConnection(p)
    \/ InitializeDbSchema(p)
    \/ InsertVersionRecord(p)
    \/ CommitSchema(p)
    \/ CloseDb(p)
    \/ RenameTemp(p)
    \/ SelectVersion(p)
    \/ BackupBeforeUpgrade(p)
    \/ FetchUpgrader(p)
    \/ ExecuteUpgrader(p)
    \/ CommitUpgrade(p)
    \/ FinalCheck(p)
    \/ Return(p)

Next == \E p \in Procs : Step(p)

Spec == Init /\ [][Next]_vars

FaultStep(p) ==
    \/ FailOpen(p)
    \/ FailOs(p)
    \/ FailCopy(p)
    \/ FailSql(p)
    \/ Crash(p)

NextFaults == \E p \in Procs : Step(p) \/ FaultStep(p)

\* The calling process is not suspended for ever: a call that can take its
\* next step takes it (each process runs its calls one after the other, and
\* nothing in the module waits).
SpecLive == Init /\ [][Next]_vars /\ \A p \in Procs : WF_vars(Step(p))

\* The same program in an environment whose I/O may fail and whose
\* processes may be killed.
SpecFaults == Init /\ [][NextFaults]_vars

DumpStep(p) ==
    \/ DumpDbEnter(p)
    \/ DumpDbLeave(p)
    \/ FailIterdump(p)

NextDump == \E p \in Procs : Step(p) \/ DumpStep(p)

\* The program with callers that also dump the databases they have opened.
SpecDump == Init /\ [][NextDump]_vars

\* Two processes use the directory at once, each creating databases with
\* create_channel_db / create_usage_db.
InitConc ==
    /\ config = [name |-> "channel", target |-> CHANNELDB_TARGET_VERSION]
    /\ upgraders = {}
    /\ InitFs
    /\ active = Procs
    /\ InitProcs

CallCreate(p) ==
    /\ Call(p)
    /\ call'[p].fn \in {"create_channel_db", "create_usage_db"}

CreateStep(p) ==
    \/ CallCreate(p)
    \/ CreateDbBranch(p)
    \/ GetTemporaryDbfile(p)
    \/ OpenDbConnection(p)
    \/ InitializeDbConnection(p)
    \/ InitializeDbSchema(p)
    \/ InsertVersionRecord(p)
    \/ CommitSchema(p)
    \/ CloseDb(p)
    \/ RenameTemp(p)
    \/ Return(p)

NextConc == \E p \in Procs : CreateStep(p)

SpecConc == InitConc /\ [][NextConc]_vars

\* ------------------------------------------------------------------ claims

Creators == {"_get_db", "create_channel_db", "create_usage_db"}

InCall(p) == pc[p] # "idle"
Has(p, kind) == \E i \in DOMAIN log[p] : log[p][i].ev = kind
Count(p, kind) == Cardinality({i \in DOMAIN log[p] : log[p][i].ev = kind})
First(p, kind) == CHOOSE i \in DOMAIN log[p] :
                     /\ log[p][i].ev = kind
                     /\ \A j \in 1..(i - 1) : log[p][j].ev # kind

\* The version the call read at line 102.
ReadVersion(p) == log[p][First(p, "select")].v

ExistedAtStart(p) == call[p].dbfile \in DOMAIN snap[p].dir
StartContent(p) == snap[p].disk[snap[p].dir[call[p].dbfile]]
NewPaths(p) == DOMAIN dir \ DOMAIN snap[p].dir

\* Every file that was there when the call began is still there, unchanged.
OldFilesKept(p) ==
    \A q \in DOMAIN snap[p].dir :
        q \in DOMAIN dir /\ Content(q) = snap[p].disk[snap[p].dir[q]]

FsUntouched(p) == DOMAIN dir = DOMAIN snap[p].dir /\ OldFilesKept(p)

\* The steps V+1..K of schema `name`, each run to its end.
StepsFrom(name, v, k) ==
    [i \in 1..(k - v) |-> [name |-> name, to |-> v + i, whole |-> TRUE]]

\* C1: while and after a create on an absent path (also one that failed or
\* was interrupted), dbfile is absent or holds the fully initialized,
\* committed database: schema created, one version record equal to the
\* target.  Nothing else changes but temporary sibling files.
C1_AtomicCreate ==
    \A p \in Procs :
        (/\ InCall(p)
         /\ call[p].fn \in Creators
         /\ call[p].dbfile # MEMORY
         /\ ~ExistedAtStart(p))
        => /\ Exists(call[p].dbfile)
                => Content(call[p].dbfile) = FreshDb(call[p].name, call[p].target)
           /\ \A q \in NewPaths(p) \ {call[p].dbfile} : IsTemp(q)
           /\ OldFilesKept(p)

\* C1 witness: a create has failed with its temporary file partly
\* initialized, and nothing is at dbfile.
C1_Witness ==
    \E p \in Procs :
        /\ pc[p] = "done"
        /\ call[p].fn \in Creators
        /\ result[p].kind \notin {"ok", "DBAlreadyExists"}
        /\ temp[p] # ""
        /\ Exists(temp[p])
        /\ Content(temp[p]) # EmptyFile
        /\ Content(temp[p]) # FreshDb(call[p].name, call[p].target)
        /\ ~Exists(call[p].dbfile)

\* C2: a connection returned by _get_db holds exactly the version record
\* target_version; and a call that read a version V <= target for which
\* all the steps V+1..target are shipped returns.
C2_ReturnsAtTarget ==
    \A p \in Procs :
        (pc[p] = "done" /\ call[p].fn = "_get_db")
        => /\ result[p].kind = "ok"
                => /\ db[p].st = "open"
                   /\ View(db[p]).version = <<call[p].target>>
           /\ (/\ Has(p, "select")
               /\ ReadVersion(p) <= call[p].target
               /\ \A k \in (ReadVersion(p) + 1)..call[p].target :
                      HasUpgrader(call[p].name, k))
                => result[p].kind = "ok"

\* C2 witness: _get_db has returned after a two-step upgrade.
C2_Witness ==
    \E p \in Procs :
        /\ pc[p] = "done"
        /\ call[p].fn = "_get_db"
        /\ result[p].kind = "ok"
        /\ Has(p, "select")
        /\ ReadVersion(p) + 2 <= call[p].target
        /\ Count(p, "upgrade") >= 2

\* The first version above v whose upgrader is missing.
FirstMissing(name, v, target) ==
    CHOOSE k \in (v + 1)..target :
        /\ ~HasUpgrader(name, k)
        /\ \A j \in (v + 1)..(k - 1) : HasUpgrader(name, j)

\* C3: when the upgrader K -> K+1 is missing, _get_db fails with the DBError
\* that names K+1 and K and returns no connection; the file holds version
\* record K, all the steps up to K and nothing of a later one.
C3_MissingStep ==
    \A p \in Procs :
        (/\ pc[p] = "done"
         /\ call[p].fn = "_get_db"
         /\ Has(p, "select")
         /\ ReadVersion(p) < call[p].target
         /\ \E k \in (ReadVersion(p) + 1)..call[p].target :
                ~HasUpgrader(call[p].name, k))
        => LET K == FirstMissing(call[p].name, ReadVersion(p), call[p].target) - 1
               now == Content(call[p].dbfile)
           IN /\ result[p] = Exc("DBError", "Unable to upgrade", K + 1, K, <<>>)
              /\ db[p] = NoConn
              /\ now.version = <<K>>
              /\ now.schema = StartContent(p).schema
              /\ now.steps = StartContent(p).steps
                                 \o StepsFrom(call[p].name, ReadVersion(p), K)

\* C3 witness: the upgrade stopped at a missing step after a step was applied.
C3_Witness ==
    \E p \in Procs :
        /\ pc[p] = "done"
        /\ call[p].fn = "_get_db"
        /\ result[p].what = "Unable to upgrade"
        /\ Has(p, "upgrade")
        /\ version[p] > ReadVersion(p)

\* The events of the upgrade loop: what the call logged after reading the
\* version, the backup copy left out.
LoopEvents(p) ==
    SelectSeq(SubSeq(log[p], First(p, "select") + 1, Len(log[p])),
              LAMBDA e : e.ev # "copy")

\* C4: a _get_db call that reads a version V below the target from a file
\* writes exactly one backup, named <dbfile>-backup-v<V>, before it fetches
\* or executes any upgrader, and the backup holds what the file held before
\* the upgrade, however many steps follow.
C4_BackupBeforeUpgrade ==
    \A p \in Procs :
        (/\ InCall(p)
         /\ call[p].fn = "_get_db"
         /\ call[p].dbfile # MEMORY
         /\ Has(p, "select")
         /\ ReadVersion(p) < call[p].target)
        => LET V == ReadVersion(p)
               backup_fn == BackupFn(call[p].dbfile, V)
           IN IF pc[p] = "backup"
              THEN Count(p, "copy") = 0 /\ ~Has(p, "fetch") /\ ~Has(p, "upgrade")
              ELSE /\ Count(p, "copy") = 1
                   /\ log[p][First(p, "copy")] = Ev("copy", backup_fn, V)
                   /\ Has(p, "fetch") => First(p, "copy") < First(p, "fetch")
                   /\ Has(p, "upgrade") => First(p, "copy") < First(p, "upgrade")
                   /\ Exists(backup_fn)
                   /\ Content(backup_fn) = StartContent(p)
                   /\ NewPaths(p) \subseteq {backup_fn}
                   /\ \A q \in DOMAIN snap[p].dir \ {call[p].dbfile, backup_fn} :
                          q \in DOMAIN dir /\ Content(q) = snap[p].disk[snap[p].dir[q]]

\* C4 witness: a two-step upgrade of a file has returned, with its backup.
C4_Witness ==
    \E p \in Procs :
        /\ pc[p] = "done"
        /\ call[p].fn = "_get_db"
        /\ result[p].kind = "ok"
        /\ Count(p, "upgrade") = 2
        /\ Exists(BackupFn(call[p].dbfile, ReadVersion(p)))
        /\ Content(call[p].dbfile) # Content(BackupFn(call[p].dbfile, ReadVersion(p)))

\* The version record of the file at DBFILE is readable.
Versioned == Exists(DBFILE) /\ HasVersionTable(Content(DBFILE))
                 /\ Content(DBFILE).version # <<>>

\* The upgrade loop of _get_db fetches, executes and commits the steps
\* V+1, V+2, ... in this order, one after the other.
C5_StepsInOrder ==
    \A p \in Procs :
        (InCall(p) /\ call[p].fn = "_get_db" /\ Has(p, "select"))
        => LET V == ReadVersion(p)
               T == LoopEvents(p)
               n == Count(p, "upgrade")
           IN /\ \A i \in DOMAIN T :
                     LET k == V + ((i - 1) \div 3) + 1 IN
                     T[i] = CASE (i - 1) % 3 = 0 -> Ev("fetch", call[p].name, k)
                              [] (i - 1) % 3 = 1 -> Ev("upgrade", call[p].name, k)
                              [] OTHER -> Ev("commit", "", 0)
              /\ (pc[p] = "done" /\ result[p].kind = "ok" /\ V < call[p].target)
                     => /\ n = call[p].target - V
                        /\ ExistedAtStart(p)
                        /\ Content(call[p].dbfile).steps =
                               StartContent(p).steps \o StepsFrom(call[p].name, V, V + n)
              /\ pc[p] \in {"loop", "final", "done"}
                     => /\ version[p] = V + n
                        /\ db[p] = NoConn \/ View(db[p]).version = <<version[p]>>

\* The version record of the database file does not go down (nor away).
C5_VersionNeverDecreases ==
    Versioned => /\ Versioned'
                 /\ Content(DBFILE)'.version[1] >= Content(DBFILE).version[1]

\* C5: migration steps are applied in strictly increasing order, each once,
\* none skipped, each committed before the next is fetched; and no operation
\* of the module lowers the version of the database.
C5_ForwardOnly == []C5_StepsInOrder /\ [][C5_VersionNeverDecreases]_vars

\* C5 witness: the second step of an upgrade is about to be executed.
C5_Witness ==
    \E p \in Procs :
        /\ pc[p] = "upgrade"
        /\ Count(p, "upgrade") = 1
        /\ version[p] = ReadVersion(p) + 1

\* C6: create_channel_db / create_usage_db on a path where a file exists
\* raises DBAlreadyExists, returns no connection and leaves the directory
\* and every file as they were.
C6_StrictCreateRejects ==
    \A p \in Procs :
        (/\ InCall(p)
         /\ call[p].fn \in {"create_channel_db", "create_usage_db"}
         /\ call[p].dbfile # MEMORY
         /\ ExistedAtStart(p))
        => /\ FsUntouched(p)
           /\ dir = snap[p].dir
           /\ db[p] = NoConn
           /\ log[p] = <<>>
           /\ pc[p] \in {"branch", "done"}
           /\ pc[p] = "done" => result[p] = Exc("DBAlreadyExists", "", 0, 0, <<>>)

\* C6 witness: a strict create was refused on a path that holds a database.
C6_Witness ==
    \E p \in Procs :
        /\ pc[p] = "done"
        /\ call[p].fn = "create_usage_db"
        /\ result[p].kind = "DBAlreadyExists"
        /\ ExistedAtStart(p)
        /\ HasVersionTable(Content(call[p].dbfile))

\* C7: open_existing_db on a path where no file exists raises DBDoesntExist,
\* which is no DBError, returns no connection and creates no file.
C7_StrictOpenRejects ==
    \A p \in Procs :
        (/\ InCall(p)
         /\ call[p].fn = "open_existing_db"
         /\ call[p].dbfile # MEMORY
         /\ ~ExistedAtStart(p))
        => /\ FsUntouched(p)
           /\ db[p] = NoConn
           /\ log[p] = <<>>
           /\ pc[p] \in {"branch", "done"}
           /\ pc[p] = "done" => /\ result[p].kind = "DBDoesntExist"
                                /\ ~IsInstance(result[p].kind, "DBError")

\* C7 witness: a strict open was refused on an absent path.
C7_Witness ==
    \E p \in Procs :
        /\ pc[p] = "done"
        /\ call[p].fn = "open_existing_db"
        /\ result[p].kind = "DBDoesntExist"
        /\ ~Exists(call[p].dbfile)

\* C8: opening an existing file whose rows violate a foreign key fails with
\* the DBError that carries the violations and returns no connection; the
\* version is not read, no backup is written, no upgrader is fetched or run.
C8_IntegrityGate ==
    \A p \in Procs :
        (/\ InCall(p)
         /\ call[p].fn \in {"_get_db", "open_existing_db"}
         /\ call[p].dbfile # MEMORY
         /\ ExistedAtStart(p)
         /\ StartContent(p).fmt = "sqlite"
         /\ StartContent(p).fk # <<>>)
        => /\ FsUntouched(p)
           /\ ~Has(p, "select") /\ ~Has(p, "copy")
           /\ ~Has(p, "fetch") /\ ~Has(p, "upgrade")
           /\ pc[p] # "init_conn" => db[p] = NoConn
           /\ pc[p] \in {"branch", "open", "init_conn", "done"}
           /\ pc[p] = "done"
                => result[p] = Exc("DBError", "failed foreign key check", 0, 0,
                                   StartContent(p).fk)

\* C8 witness: _get_db has refused a file that is behind the target and has
\* a foreign-key violation.
C8_Witness ==
    \E p \in Procs :
        /\ pc[p] = "done"
        /\ call[p].fn = "_get_db"
        /\ result[p].what = "failed foreign key check"
        /\ result[p].problems # <<>>
        /\ Content(call[p].dbfile).version[1] < call[p].target

\* C9: a call on the in-memory sentinel creates or changes no file: no
\* database file, no temporary file, no backup file.
C9_MemoryTouchesNoFile ==
    \A p \in Procs :
        (InCall(p) /\ call[p].dbfile = MEMORY)
        => /\ FsUntouched(p)
           /\ dir = snap[p].dir
           /\ disk = snap[p].disk
           /\ db[p].ino = 0
           /\ ~Has(p, "mkstemp") /\ ~Has(p, "rename") /\ ~Has(p, "copy")

\* C9 witness: _get_db has returned an in-memory database.
C9_Witness ==
    \E p \in Procs :
        /\ pc[p] = "done"
        /\ call[p].fn = "_get_db"
        /\ call[p].dbfile = MEMORY
        /\ result[p].kind = "ok"
        /\ db[p].mem = <<FreshDb(call[p].name, call[p].target)>>

\* C10: a _get_db call that directly follows a successful _get_db call on
\* the same path, name and target returns a connection showing the version
\* record and data the first one showed; it creates no schema, runs no
\* upgrader, renames nothing and writes nothing.
C10_ReopenIsIdempotent ==
    \A p \in Procs :
        (/\ InCall(p)
         /\ call[p].fn = "_get_db"
         /\ prev[p] # <<>>
         /\ prev[p][1].dbfile = call[p].dbfile
         /\ prev[p][1].name = call[p].name
         /\ prev[p][1].target = call[p].target)
        => /\ FsUntouched(p)
           /\ ~Has(p, "mkstemp") /\ ~Has(p, "schema") /\ ~Has(p, "insert")
           /\ ~Has(p, "rename") /\ ~Has(p, "copy")
           /\ ~Has(p, "fetch") /\ ~Has(p, "upgrade")
           /\ pc[p] = "done" => /\ result[p].kind = "ok"
                                /\ View(db[p]) = prev[p][1].data
                                /\ View(db[p]).version = <<call[p].target>>

\* C10 witness: the second of two _get_db calls has returned, the first
\* having upgraded the file.
C10_Witness ==
    \E p \in Procs :
        /\ pc[p] = "done"
        /\ call[p].fn = "_get_db"
        /\ prev[p] # <<>>
        /\ prev[p][1].upgraded
        /\ result[p].kind = "ok"

\* C10 witness, the other case: the first call created the file.
C10_WitnessCreated ==
    \E p \in Procs :
        /\ pc[p] = "done"
        /\ call[p].fn = "_get_db"
        /\ prev[p] # <<>>
        /\ prev[p][1].created
        /\ result[p].kind = "ok"

\* The call failed while it was creating its file, opening a connection or
\* initializing the schema: in mkstemp, in _open_db_connection, or in one of
\* the statements of _initialize_db_schema.
FailedInSetup(p) ==
    /\ pc[p] = "done"
    /\ result[p].kind \notin {"ok", "killed"}
    /\ result[p].what \in {"mkstemp", "schema", "insert", "commit",
                           "Unable to create/open db file",
                           "failed foreign key check"}

\* C11: a failure of the storage engine or of I/O while _get_db creates a
\* file, opens a connection or initializes the schema reaches the caller as
\* DBError (a failure of the rename is not one of these).
C11_SetupFailuresAreDBError ==
    \A p \in Procs :
        (call[p].fn = "_get_db" /\ FailedInSetup(p))
        => IsInstance(result[p].kind, "DBError")

\* C12: dump_db leaves the connection's row factory as it found it, when it
\* returns the dump and when iterdump raises; sqlite3.Row is installed only
\* while dump_db runs.
C12_RowFactoryRestored ==
    \A p \in Procs :
        /\ pc[p] = "iterdump"
               => /\ db[p].row_factory = "sqlite3.Row"
                  /\ dump[p].orig = "dict_factory"
        /\ (pc[p] = "done" /\ db[p].st = "open")
               => /\ db[p].row_factory = "dict_factory"
                  /\ dump[p].out # "" => db[p].row_factory = dump[p].orig

\* C12 witness: iterdump has raised on a connection _get_db returned.
C12_Witness ==
    \E p \in Procs :
        /\ pc[p] = "done"
        /\ call[p].fn = "_get_db"
        /\ dump[p].out = "raised"
        /\ dump[p].orig = "dict_factory"
        /\ db[p].row_factory = "dict_factory"

\* C12 witness, the other case: dump_db has returned the dump.
C12_WitnessReturned ==
    \E p \in Procs :
        /\ pc[p] = "done"
        /\ dump[p].out = "returned"
        /\ dump[p].text = <<View(db[p])>>
        /\ db[p].row_factory = "dict_factory"

\* The version record of a database agrees with the steps applied to it:
\* every step ran to its end and none is later than the version record.
StepsAgree(c) ==
    (HasVersionTable(c) /\ c.version # <<>>)
    => \A i \in DOMAIN c.steps : c.steps[i].whole /\ c.steps[i].to <= c.version[1]

\* The call was killed during the upgrade: at the loop test, inside or after
\* executescript(upgrader), or before db.commit().
KilledInUpgrade(p) ==
    /\ pc[p] = "done"
    /\ call[p].fn = "_get_db"
    /\ call[p].dbfile # MEMORY
    /\ result[p].kind = "killed"
    /\ result[p].what \in {"loop", "upgrade", "commit_upgrade"}

\* C13: when the process is killed at any point of the upgrade loop of
\* _get_db, the file holds a version record N and the effects of exactly the
\* steps up to N: no step is partly applied, none is applied beyond N.
C13_CrashLeavesWholeSteps ==
    \A p \in Procs :
        KilledInUpgrade(p) => StepsAgree(Content(call[p].dbfile))

\* What does hold: a kill between two steps, or between executescript and
\* db.commit(), finds the file at a whole version.
C13_CrashBetweenStatements ==
    \A p \in Procs :
        (KilledInUpgrade(p) /\ result[p].what \in {"loop", "commit_upgrade"})
        => /\ StepsAgree(Content(call[p].dbfile))
           /\ Content(call[p].dbfile).version = <<version[p] +
                  (IF result[p].what = "commit_upgrade" THEN 1 ELSE 0)>>

\* C14: when _get_db reads from an existing file a version above
\* target_version, it fails with DBError 'Unable to handle db version' and
\* returns no connection; it has fetched and run no upgrader, written no
\* backup, and the file and its version record are as they were.
C14_NewerVersionRefused ==
    \A p \in Procs :
        (/\ InCall(p)
         /\ call[p].fn = "_get_db"
         /\ call[p].dbfile # MEMORY
         /\ Has(p, "select")
         /\ ReadVersion(p) > call[p].target)
        => /\ ExistedAtStart(p)
           /\ FsUntouched(p)
           /\ dir = snap[p].dir
           /\ ~Has(p, "copy") /\ ~Has(p, "fetch") /\ ~Has(p, "upgrade")
           /\ ~Has(p, "schema") /\ ~Has(p, "insert") /\ ~Has(p, "commit")
           /\ Content(call[p].dbfile).version = <<ReadVersion(p)>>
           /\ pc[p] = "done"
                => /\ result[p] = Exc("DBError", "Unable to handle db version",
                                      ReadVersion(p), 0, <<>>)
                   /\ db[p] = NoConn

\* C14 witness: _get_db has refused a file two versions ahead of its target.
C14_Witness ==
    \E p \in Procs :
        /\ pc[p] = "done"
        /\ call[p].fn = "_get_db"
        /\ result[p].what = "Unable to handle db version"
        /\ ReadVersion(p) = call[p].target + 2
        /\ Content(call[p].dbfile) = StartContent(p)

StrictCreates == {"create_channel_db", "create_usage_db"}

\* The rename step of a strict create leaves a file that is at dbfile alone.
C15_RenameKeepsExisting ==
    \A p \in Procs :
        (/\ pc[p] = "rename"
         /\ pc'[p] # "rename"
         /\ call[p].fn \in StrictCreates
         /\ Exists(call[p].dbfile))
        => /\ call[p].dbfile \in DOMAIN dir'
           /\ dir'[call[p].dbfile] = dir[call[p].dbfile]

\* Of two strict creates of one absent path that run at the same time, at
\* most one returns a connection.
C15_OneCreateSucceeds ==
    \A p, q \in Procs :
        (/\ p # q
         /\ pc[p] = "done" /\ pc[q] = "done"
         /\ call[p].fn \in StrictCreates /\ call[q].fn \in StrictCreates
         /\ call[p].dbfile # MEMORY
         /\ call[p].dbfile = call[q].dbfile
         /\ ~ExistedAtStart(p) /\ ~ExistedAtStart(q))
        => ~(result[p].kind = "ok" /\ result[q].kind = "ok")

\* C15: create_channel_db / create_usage_db never replace a file that is at
\* dbfile, whatever another process does at the same time; a file that is
\* there when the rename step runs is not overwritten, and of two concurrent
\* strict creates of one path at most one succeeds.
C15_StrictCreateNeverClobbers ==
    []C15_OneCreateSucceeds /\ [][C15_RenameKeepsExisting]_vars

\* C16: when a create returns its connection, the connection is on the file
\* that is at dbfile at that moment, also with another process creating the
\* same path at the same time.
C16_ReturnedConnectionIsAtDbfile ==
    [][\A p \in Procs :
           (/\ pc[p] = "init_conn"
            /\ pc'[p] = "done"
            /\ stage[p] = "final"
            /\ result'[p].kind = "ok")
           => /\ call[p].dbfile \in DOMAIN dir'
              /\ db'[p].ino = dir'[call[p].dbfile]]_vars

\* The upgrade loop of _get_db makes progress: each executed step raises the
\* local version by one, and the steps still to run are those up to the
\* target.
C17_LoopVariant ==
    \A p \in Procs :
        (InCall(p) /\ call[p].fn = "_get_db" /\ Has(p, "select")
                   /\ ReadVersion(p) <= call[p].target)
        => LET V == ReadVersion(p) IN
           /\ Count(p, "upgrade") <= call[p].target - V
           /\ Count(p, "fetch") <= call[p].target - V
           /\ version[p] <= call[p].target
           /\ pc[p] \in {"loop", "final"} => version[p] = V + Count(p, "upgrade")
           /\ pc[p] = "done"
                => \/ /\ result[p].kind = "ok"
                      /\ version[p] = call[p].target
                   \/ /\ result[p] = UpgradeError(version[p])
                      /\ version[p] < call[p].target
                      /\ ~HasUpgrader(call[p].name, version[p] + 1)
                      /\ \A k \in (V + 1)..version[p] : HasUpgrader(call[p].name, k)

\* C17: every call of _get_db terminates; the loop runs at most
\* target_version - V times from the version V it read, each time raising
\* the version by one, and ends at the target (the connection is returned)
\* or with the DBError of the first missing step.
C17_GetDbTerminates ==
    /\ []C17_LoopVariant
    /\ \A p \in Procs :
           (pc[p] = "branch" /\ call[p].fn = "_get_db") ~> (pc[p] = "done")

\* C17 witness: _get_db has returned after running the loop as many times as
\* the target is above the version it read, here twice.
C17_Witness ==
    \E p \in Procs :
        /\ pc[p] = "done"
        /\ call[p].fn = "_get_db"
        /\ result[p].kind = "ok"
        /\ Count(p, "upgrade") = call[p].target - ReadVersion(p)
        /\ Count(p, "upgrade") = 2
        /\ version[p] = call[p].target

\* C18: open_existing_db on a path where a file exists creates nothing and
\* migrates nothing: it only connects; it runs no schema script and no
\* upgrader, writes no backup, and leaves the file and its version record as
\* they were, whatever the version is with respect to the versions this
\* installation targets.
C18_StrictOpenOnlyOpens ==
    \A p \in Procs :
        (/\ InCall(p)
         /\ call[p].fn = "open_existing_db"
         /\ call[p].dbfile # MEMORY
         /\ ExistedAtStart(p))
        => /\ FsUntouched(p)
           /\ dir = snap[p].dir
           /\ \A i \in DOMAIN log[p] : log[p][i] = Ev("connect", call[p].dbfile, 0)
           /\ Len(log[p]) <= 1
           /\ pc[p] \in {"branch", "open", "init_conn", "done"}
           /\ (pc[p] = "done" /\ result[p].kind = "ok")
                => /\ db[p].ino = dir[call[p].dbfile]
                   /\ db[p].txn = <<>>
                   /\ View(db[p]) = StartContent(p)

\* C18 witness: open_existing_db has returned a connection to a database
\* that is behind the target of this installation.
C18_Witness ==
    \E p \in Procs :
        /\ pc[p] = "done"
        /\ call[p].fn = "open_existing_db"
        /\ result[p].kind = "ok"
        /\ Content(call[p].dbfile).version # <<>>
        /\ Content(call[p].dbfile).version[1] < config.target
        /\ HasUpgrader(config.name, Content(call[p].dbfile).version[1] + 1)

\* C18 witness, the other case: the database is ahead of the target.
C18_WitnessAhead ==
    \E p \in Procs :
        /\ pc[p] = "done"
        /\ call[p].fn = "open_existing_db"
        /\ result[p].kind = "ok"
        /\ Content(call[p].dbfile).version # <<>>
        /\ Content(call[p].dbfile).version[1] > config.target

\* The paths of backup files of the database at DBFILE.
BackupPaths == {BackupFn(DBFILE, v) : v \in 0..(MaxTarget + 1)}

\* C19: a backup file <dbfile>-backup-v<N> is written only by a _get_db call
\* that has read the version N < target_version from a file that was already
\* there: not by a call that has just created the file, not when the file is
\* at the target, not by create_channel_db / create_usage_db /
\* open_existing_db.
C19_BackupOnlyWhenBehind ==
    \A p \in Procs :
        InCall(p)
        => /\ Has(p, "copy")
                => /\ call[p].fn = "_get_db"
                   /\ call[p].dbfile # MEMORY
                   /\ ExistedAtStart(p)
                   /\ ~Has(p, "mkstemp") /\ ~Has(p, "rename")
                   /\ Has(p, "select")
                   /\ ReadVersion(p) < call[p].target
                   /\ log[p][First(p, "copy")] =
                          Ev("copy", BackupFn(call[p].dbfile, ReadVersion(p)),
                             ReadVersion(p))
           /\ \A q \in BackupPaths :
                  \/ q \notin DOMAIN dir /\ q \notin DOMAIN snap[p].dir
                  \/ /\ Has(p, "copy")
                     /\ q = BackupFn(call[p].dbfile, ReadVersion(p))
                  \/ /\ q \in DOMAIN dir /\ q \in DOMAIN snap[p].dir
                     /\ Content(q) = snap[p].disk[snap[p].dir[q]]

\* C19 witness: a _get_db call that found the file at the target returns
\* with no backup written, next to a backup an earlier call left.
C19_Witness ==
    \E p \in Procs :
        /\ pc[p] = "done"
        /\ call[p].fn = "_get_db"
        /\ result[p].kind = "ok"
        /\ Has(p, "select")
        /\ ReadVersion(p) = call[p].target
        /\ ~Has(p, "copy")
        /\ \E q \in BackupPaths : q \in DOMAIN dir

\* C19 witness, the other case: the call has just created the file, at the
\* target, and no backup exists.
C19_WitnessCreated ==
    \E p \in Procs :
        /\ pc[p] = "done"
        /\ call[p].fn = "_get_db"
        /\ result[p].kind = "ok"
        /\ Has(p, "rename")
        /\ Has(p, "select")
        /\ \A q \in BackupPaths : q \notin DOMAIN dir

\* C20: the backup is written before the first upgrader is looked up: when
\* _get_db fails because the step from the version V it read to V+1 is
\* missing, <dbfile>-backup-v<V> exists and holds what the database file
\* holds.
C20_BackupBeforeFirstLookup ==
    \A p \in Procs :
        (/\ pc[p] = "done"
         /\ call[p].fn = "_get_db"
         /\ call[p].dbfile # MEMORY
         /\ Has(p, "select")
         /\ ReadVersion(p) < call[p].target
         /\ ~HasUpgrader(call[p].name, ReadVersion(p) + 1))
        => LET V == ReadVersion(p)
               backup_fn == BackupFn(call[p].dbfile, V)
           IN /\ result[p] = UpgradeError(V)
              /\ ~Has(p, "fetch")
              /\ Count(p, "copy") = 1
              /\ Exists(backup_fn)
              /\ Content(backup_fn) = Content(call[p].dbfile)
              /\ Content(backup_fn).version = <<V>>

\* C20 witness: _get_db has failed at the first step and left the backup, a
\* new file, beside the unchanged database.
C20_Witness ==
    \E p \in Procs :
        /\ pc[p] = "done"
        /\ call[p].fn = "_get_db"
        /\ Has(p, "select")
        /\ result[p] = UpgradeError(ReadVersion(p))
        /\ BackupFn(call[p].dbfile, ReadVersion(p)) \in NewPaths(p)
        /\ Content(call[p].dbfile) = StartContent(p)

====
